---------------------------- MODULE Spec2Model ----------------------------
(***************************************************************************)
(* Model of extract_rpg_sessions.py: the chat-log parser (parse_chat_log), *)
(* the session segmenter (extract_rpg_sessions) and the session renderer   *)
(* (process_rpg_session, create_word_document).                            *)
(*                                                                         *)
(* Text is modelled character by character: a string is a sequence of      *)
(* characters, and a character is a one-element token.  The non-ASCII      *)
(* characters of the source are named by the definitions below.            *)
(***************************************************************************)
EXTENDS Integers, Sequences, FiniteSets, TLC

VARIABLES
    lines,              \* parse_chat_log: the lines read from the file
    i,                  \* parse_chat_log: the cursor (Python index, 0-based)
    username,           \* parse_chat_log: local of the current candidate
    timestamp,          \* parse_chat_log: local, None or a string
    content_lines,      \* parse_chat_log: local, the accumulated body lines
    consecutive_empty,  \* parse_chat_log: local counter of blank lines
    content,            \* parse_chat_log: local, None or the joined body
    messages,           \* the parsed messages (output of the parser, input of the segmenter)
    idx,                \* extract_rpg_sessions: number of messages consumed by the for loop
    sessions,           \* extract_rpg_sessions: the sessions emitted so far
    in_session,         \* extract_rpg_sessions: INSIDE / OUTSIDE
    current_session,    \* extract_rpg_sessions: the session being accumulated
    doc,                \* create_word_document: the paragraphs added so far
    rendered,           \* create_word_document: number of sessions rendered
    saved,              \* create_word_document: whether doc.save was reached
    exit_code,          \* main: the exit status of the process, None while it runs
    pc                  \* position in the program

parseVars == <<lines, i, username, timestamp, content_lines, consecutive_empty, content>>
segVars   == <<idx, sessions, in_session, current_session>>
docVars   == <<doc, rendered, saved>>
vars      == <<lines, i, username, timestamp, content_lines, consecutive_empty,
               content, messages, idx, sessions, in_session, current_session,
               doc, rendered, saved, exit_code, pc>>

-----------------------------------------------------------------------------
(* Characters *)

EmDash  == "EM"       \* U+2014, the dash of the markers
FwComma == "FWCOMMA"  \* U+FF0C, the full-width comma of the start pattern
ChShi   == "shi"      \* U+65F6, also the optional hour suffix of the start pattern
ChJian  == "jian"
ChNei   == "nei"
ChRong  == "rong"
ChTi    == "ti"
ChJi    == "ji"
LF      == "\n"
Space   == " "
Tab     == "\t"

Whitespace == {Space, Tab, LF}
Digits     == {"0", "1", "2", "3", "4", "5", "6", "7", "8", "9"}

\* Python's None, and a present value: an optional is a sequence of length <= 1
None    == <<>>
Some(v) == <<v>>

\* The labels and literals of the source
TimeLabel    == <<ChShi, ChJian, ":">>
ContentLabel == <<ChNei, ChRong, ":">>
MentionLabel == <<ChTi, ChJi, ":">>
EndMarker    == <<EmDash, EmDash, "s", "a", "v", "e", EmDash, EmDash>>

-----------------------------------------------------------------------------
(* String operations of Python, as the source uses them *)

\* s.startswith(p)
StartsWith(s, p) == Len(s) >= Len(p) /\ SubSeq(s, 1, Len(p)) = p

\* s.endswith(p)
EndsWith(s, p) == Len(s) >= Len(p) /\ SubSeq(s, Len(s) - Len(p) + 1, Len(s)) = p

\* s.strip(): leading and trailing whitespace removed
Strip(s) ==
    LET keep == {k \in 1..Len(s) : s[k] \notin Whitespace}
    IN  IF keep = {} THEN <<>>
        ELSE SubSeq(s, CHOOSE a \in keep : \A b \in keep : a <= b,
                       CHOOSE a \in keep : \A b \in keep : a >= b)

\* s.replace(p, ''): every non-overlapping occurrence removed, left to right
RECURSIVE Replace(_, _)
Replace(s, p) ==
    IF s = <<>> THEN <<>>
    ELSE IF StartsWith(s, p) THEN Replace(SubSeq(s, Len(p) + 1, Len(s)), p)
    ELSE <<Head(s)>> \o Replace(Tail(s), p)

\* '\n'.join(ls)
RECURSIVE Join(_)
Join(ls) ==
    IF ls = <<>> THEN <<>>
    ELSE IF Len(ls) = 1 THEN ls[1]
    ELSE ls[1] \o <<LF>> \o Join(Tail(ls))

\* The concatenation of a sequence of sequences
RECURSIVE Flatten(_)
Flatten(ss) == IF ss = <<>> THEN <<>> ELSE Head(ss) \o Flatten(Tail(ss))

\* p in s: p occurs somewhere in s
Contains(s, p) == \E k \in 1..(Len(s) + 1 - Len(p)) : SubSeq(s, k, k + Len(p) - 1) = p

\* bool(x) of an optional string: None and '' are false
Truthy(opt) == opt # None /\ opt[1] # <<>>

-----------------------------------------------------------------------------
(* The start pattern: EM EM CST501[67]/\d+/\d+(/\d+shi?)?(FWCOMMA[^EM]+)?EM EM *)
(* Each piece maps the set of positions a match may have reached to the    *)
(* set of positions it may reach next (position = index of the next char). *)

ReLit(s, P, lit) ==
    {p + Len(lit) : p \in {q \in P : q + Len(lit) - 1 <= Len(s)
                                     /\ SubSeq(s, q, q + Len(lit) - 1) = lit}}

ReOne(s, P, C) == {p + 1 : p \in {q \in P : q <= Len(s) /\ s[q] \in C}}

RePlus(s, P, C) ==
    {e \in 2..(Len(s) + 1) : \E p \in P : p < e /\ \A k \in p..(e - 1) : s[k] \in C}

RePlusNot(s, P, c) ==
    {e \in 2..(Len(s) + 1) : \E p \in P : p < e /\ \A k \in p..(e - 1) : s[k] # c}

\* start_pattern.search(s): a match starting anywhere in s
StartPatternSearch(s) ==
    LET p0 == 1..(Len(s) + 1)
        p1 == ReLit(s, p0, <<EmDash, EmDash, "C", "S", "T", "5", "0", "1">>)
        p2 == ReOne(s, p1, {"6", "7"})
        p3 == RePlus(s, ReLit(s, p2, <<"/">>), Digits)
        p4 == RePlus(s, ReLit(s, p3, <<"/">>), Digits)
        h1 == RePlus(s, ReLit(s, p4, <<"/">>), Digits)
        p5 == p4 \cup h1 \cup ReLit(s, h1, <<ChShi>>)
        p6 == p5 \cup RePlusNot(s, ReLit(s, p5, <<FwComma>>), EmDash)
        p7 == ReLit(s, p6, <<EmDash, EmDash>>)
    IN  p7 # {}

\* content == the save literal: full equality
IsEndMarker(s) == s = EndMarker


-----------------------------------------------------------------------------
(* extract_rpg_sessions *)

\* The segmenter's state: the three locals of extract_rpg_sessions
SegState(ss, ins, cur) == [sessions |-> ss, in_session |-> ins, current_session |-> cur]

\* Faulty variant: the flush without its guard
FlushOnStartUnguarded(st) == Append(st.sessions, st.current_session)

\* The flush of the in-progress session before a new one is opened (lines 137-138)
FlushOnStart(st) ==
    IF st.in_session /\ st.current_session # <<>>
    THEN Append(st.sessions, st.current_session)
    ELSE st.sessions

\* Faulty variant: the new marker is appended to the session in progress (no reset)
OpenSessionKeeps(st, msg) == Append(st.current_session, msg)

\* The session opened by a start marker (line 140)
OpenSession(st, msg) == <<msg>>

\* Faulty variant: the session in progress is dropped when a new one starts
OnStartMarkerDrops(st, msg) == SegState(st.sessions, TRUE, <<msg>>)

\* Lines 135-140: the message matches the start pattern
OnStartMarker(st, msg) == SegState(FlushOnStart(st), TRUE, OpenSession(st, msg))

\* Faulty variant: the save literal is searched for, not compared
ClosesSessionBySearch(body) == Contains(body, EndMarker)

\* The test that closes the session (line 144)
ClosesSession(body) == IsEndMarker(body)

\* Faulty variant: the save message emits the session and leaves it open
OnInsideStaysOpen(st, msg) ==
    LET cur == Append(st.current_session, msg)
    IN  IF ClosesSession(msg.content)
        THEN SegState(Append(st.sessions, cur), TRUE, <<>>)
        ELSE SegState(st.sessions, TRUE, cur)

\* Faulty variant: only the save message is added to the session in progress
OnInsideSkipsPlain(st, msg) ==
    IF ClosesSession(msg.content)
    THEN SegState(Append(st.sessions, Append(st.current_session, msg)), FALSE, <<>>)
    ELSE SegState(st.sessions, TRUE, st.current_session)

\* Faulty variant: the save message emits the session, which goes on growing
OnInsideKeepsGrowing(st, msg) ==
    LET cur == Append(st.current_session, msg)
    IN  IF ClosesSession(msg.content)
        THEN SegState(Append(st.sessions, cur), TRUE, cur)
        ELSE SegState(st.sessions, TRUE, cur)

\* Lines 141-147: no start marker, inside a session
OnInsideMessage(st, msg) ==
    LET cur == Append(st.current_session, msg)
    IN  IF ClosesSession(msg.content)
        THEN SegState(Append(st.sessions, cur), FALSE, <<>>)
        ELSE SegState(st.sessions, TRUE, cur)

\* Faulty variant: the unterminated session is dropped
OnEndOfInputDrops(st) == st.sessions

\* Lines 149-151: the unterminated session at the end of the input
OnEndOfInput(st) ==
    IF st.in_session /\ st.current_session # <<>>
    THEN Append(st.sessions, st.current_session)
    ELSE st.sessions

\* One iteration of the for loop (lines 131-147)
SegStep(st, msg) ==
    IF StartPatternSearch(msg.content) THEN OnStartMarker(st, msg)
    ELSE IF st.in_session THEN OnInsideMessage(st, msg)
    ELSE st

RECURSIVE SegFold(_, _)
SegFold(st, msgs) ==
    IF msgs = <<>> THEN st ELSE SegFold(SegStep(st, Head(msgs)), Tail(msgs))

\* extract_rpg_sessions(msgs) as a function of its argument (lines 118-153)
ExtractRpgSessions(msgs) == OnEndOfInput(SegFold(SegState(<<>>, FALSE, <<>>), msgs))

CurState == SegState(sessions, in_session, current_session)

\* for msg in messages, the start-marker branch
SegStartMarker ==
    /\ pc = "seg_loop"
    /\ idx < Len(messages)
    /\ StartPatternSearch(messages[idx + 1].content)
    /\ LET st == OnStartMarker(CurState, messages[idx + 1])
       IN  /\ sessions' = st.sessions
           /\ in_session' = st.in_session
           /\ current_session' = st.current_session
    /\ idx' = idx + 1
    /\ UNCHANGED <<parseVars, messages, docVars, exit_code, pc>>

\* for msg in messages, the elif in_session branch
SegInsideMessage ==
    /\ pc = "seg_loop"
    /\ idx < Len(messages)
    /\ ~StartPatternSearch(messages[idx + 1].content)
    /\ in_session
    /\ LET st == OnInsideMessage(CurState, messages[idx + 1])
       IN  /\ sessions' = st.sessions
           /\ in_session' = st.in_session
           /\ current_session' = st.current_session
    /\ idx' = idx + 1
    /\ UNCHANGED <<parseVars, messages, docVars, exit_code, pc>>

\* for msg in messages, neither branch: the message is outside every session
SegOutsideMessage ==
    /\ pc = "seg_loop"
    /\ idx < Len(messages)
    /\ ~StartPatternSearch(messages[idx + 1].content)
    /\ ~in_session
    /\ idx' = idx + 1
    /\ UNCHANGED <<parseVars, messages, sessions, in_session, current_session, docVars, exit_code, pc>>

\* The loop is exhausted: lines 149-153
SegReturn ==
    /\ pc = "seg_loop"
    /\ idx = Len(messages)
    /\ sessions' = OnEndOfInput(CurState)
    /\ pc' = "segmented"
    /\ UNCHANGED <<parseVars, messages, idx, in_session, current_session, docVars, exit_code>>

-----------------------------------------------------------------------------
(* The identity table and the colour table *)

\* The raw identifiers (keys of NAME_MAPPING), character by character
RawShiyu    == <<"shi1", "yu3">>
RawHeavy    == <<"h", "e", "a", "v", "y", "ANT">>
RawGa1axian == <<"G", "a", "1", "a", "x", "i", "a", "n">>
RawSuibo    == <<"sui", "bo", "zhu", "liu", "zhi", "zuo", "wei", "yuan", "hui">>
RawMeng     == <<"meng", "zhi1", "hai">>
RawWutang   == <<"wu", "tang", "chang", "wen", "bai", "shi4", "F", "E", "S">>
QQ1 == <<"9", "0", "7", "5", "6", "4", "1", "5", "5">>
QQ2 == <<"2", "7", "0", "4", "5", "8", "7", "5", "9", "9">>
QQ3 == <<"1", "4", "5", "6", "8", "4", "6", "0", "9", "0">>
QQ4 == <<"1", "6", "9", "5", "5", "3", "9", "0", "4", "0">>
QQ5 == <<"1", "2", "1", "4", "5", "8", "1", "1", "9", "5">>
QQ6 == <<"6", "5", "1", "4", "6", "4", "1", "6", "9">>

\* The display names (values of NAME_MAPPING, keys of COLOR_MAPPING)
NameWuji    == <<"[[", "shen", "yu4", "sheng", "yong", "]]", "wu2", "ji2", "wu3", "sheng1">>
NameAdele   == <<"[[", "tiao", "ting", "zhe", "]]", "a", "de", "le">>
NameJiuzhu  == <<"[[", "jiu", "hao", "qiu", "]]", "jiu3", "zhu3", "xun">>
NameJiaerwen == <<"[[", "hei", "yin", "]]", "jia", "er", "wen2">>
NameShiqi   == <<"[[", "tu", "si", "zi", "]]", "shi2", "qi">>
NameAipake  == <<"[[", ChShi, "dai", "]]", "ai", "pa", "ke">>

NAME_MAPPING ==
    (RawShiyu :> NameWuji) @@ (RawHeavy :> NameAdele) @@ (RawGa1axian :> NameJiuzhu)
    @@ (RawSuibo :> NameJiaerwen) @@ (RawMeng :> NameShiqi) @@ (RawWutang :> NameAipake)
    @@ (QQ1 :> NameWuji) @@ (QQ2 :> NameAdele) @@ (QQ3 :> NameJiuzhu)
    @@ (QQ4 :> NameJiaerwen) @@ (QQ5 :> NameShiqi) @@ (QQ6 :> NameAipake)

COLOR_MAPPING ==
    (NameWuji :> <<255, 0, 0>>) @@ (NameAdele :> <<128, 0, 128>>)
    @@ (NameJiuzhu :> <<139, 69, 19>>) @@ (NameJiaerwen :> <<0, 0, 0>>)
    @@ (NameShiqi :> <<0, 0, 255>>) @@ (NameAipake :> <<128, 128, 128>>)

-----------------------------------------------------------------------------
(* process_rpg_session *)

\* Lines 162-164: the display name of a raw identifier
ResolveName(raw) == IF raw \in DOMAIN NAME_MAPPING THEN NAME_MAPPING[raw] ELSE raw

\* Faulty variant: every message keeps its timestamp
KeepsTimestampAlways(body) == TRUE

\* Lines 169-173: whether the message keeps its timestamp
KeepsTimestamp(body) == StartPatternSearch(body) \/ IsEndMarker(body)

\* Lines 160-182: one message of the session, processed
ProcessMessage(msg) ==
    [username  |-> ResolveName(msg.username),
     timestamp |-> IF KeepsTimestamp(msg.content) THEN msg.timestamp ELSE None,
     content   |-> msg.content]

\* process_rpg_session(session)
ProcessRpgSession(session) == [k \in 1..Len(session) |-> ProcessMessage(session[k])]

-----------------------------------------------------------------------------
(* create_word_document *)

\* The colour given to a run of a paragraph of this (processed) author, if any
RunColor(name) == IF name \in DOMAIN COLOR_MAPPING THEN Some(COLOR_MAPPING[name]) ELSE None

Run(kind, text, color, bold) == [kind |-> kind, text |-> text, color |-> color, bold |-> bold]

\* Lines 209-212: the timestamp run, added only for a truthy timestamp
TimeRuns(msg) ==
    IF Truthy(msg.timestamp)
    THEN <<Run("time", <<Space, "[">> \o msg.timestamp[1] \o <<"]">>,
               RunColor(msg.username), FALSE)>>
    ELSE <<>>

\* Lines 200-222: the paragraph of one processed message
Paragraph(msg) ==
    [kind |-> "paragraph",
     runs |-> <<Run("username", msg.username, RunColor(msg.username), TRUE)>>
              \o TimeRuns(msg)
              \o <<Run("colon", <<":", Space>>, RunColor(msg.username), FALSE),
                   Run("content", msg.content, RunColor(msg.username), FALSE)>>]

Heading(level, n) == [kind |-> "heading", level |-> level, number |-> n]

\* Lines 191-222: the heading and the paragraphs of session number n
SessionElements(n, session) ==
    LET processed == ProcessRpgSession(session)
    IN  <<Heading(1, n)>> \o [k \in 1..Len(processed) |-> Paragraph(processed[k])]

\* Faulty variant: the document is created whatever the segmentation returned
HasSessionsAlways(ss) == TRUE

\* main, line 259: if sessions
HasSessions(ss) == ss # <<>>

\* Faulty variant: the document is saved once a session has been rendered
SavesAfterFirst(n, ss) == n >= 1

\* The loop of line 191 is exhausted: every session has been rendered
AllRendered(n, ss) == n = Len(ss)

\* main, line 259: sessions is non-empty; create_word_document lines 188-189
DocCreate ==
    /\ pc = "segmented"
    /\ HasSessions(sessions)
    /\ doc' = <<Heading(0, 0)>>
    /\ rendered' = 0
    /\ pc' = "render"
    /\ UNCHANGED <<parseVars, messages, segVars, saved, exit_code>>

\* One iteration of the loop over the sessions (lines 191-222)
RenderSession ==
    /\ pc = "render"
    /\ rendered < Len(sessions)
    /\ doc' = doc \o SessionElements(rendered + 1, sessions[rendered + 1])
    /\ rendered' = rendered + 1
    /\ UNCHANGED <<parseVars, messages, segVars, saved, exit_code, pc>>

\* Line 224: doc.save, after the last session; main then returns (line 261)
DocSave ==
    /\ pc = "render"
    /\ AllRendered(rendered, sessions)
    /\ saved' = TRUE
    /\ exit_code' = Some(0)
    /\ pc' = "done"
    /\ UNCHANGED <<parseVars, messages, segVars, doc, rendered>>

\* Lines 191-222 raise while a session is rendered (a library call rejects
\* its argument): some of the session's elements have been added, the
\* exception reaches main's handler (lines 268-270)
RenderFails ==
    /\ pc = "render"
    /\ rendered < Len(sessions)
    /\ \E n \in 0..Len(sessions[rendered + 1]) :
          doc' = doc \o SubSeq(SessionElements(rendered + 1, sessions[rendered + 1]), 1, n)
    /\ exit_code' = Some(1)
    /\ pc' = "failed"
    /\ UNCHANGED <<parseVars, messages, segVars, rendered, saved>>

\* main, lines 263-264: no session was found; main returns
WarnNoSessions ==
    /\ pc = "segmented"
    /\ ~HasSessions(sessions)
    /\ exit_code' = Some(0)
    /\ pc' = "warned"
    /\ UNCHANGED <<parseVars, messages, segVars, docVars>>

-----------------------------------------------------------------------------
(* parse_chat_log *)

\* lines[k] of the source (Python indexes from 0)
Line(k) == lines[k + 1]

Msg(u, t, c) == [username |-> u, timestamp |-> t, content |-> c]

\* The separator that ends a username line
Separator == <<":">>

\* Line 58: a non-empty stripped line that ends with ':'
IsUsernameLine(line) == line # <<>> /\ EndsWith(line, Separator)

\* Lines 65 and 70: the text of a labelled line, the label removed
FieldText(raw, label) == Strip(Replace(Strip(raw), label))

\* Line 64: the line after the cursor k is a time line
HasTimeAt(k) == k + 1 < Len(lines) /\ StartsWith(Strip(Line(k + 1)), TimeLabel)

\* Line 69: the line after the cursor k is a content line
HasContentAt(k) == k + 1 < Len(lines) /\ StartsWith(Strip(Line(k + 1)), ContentLabel)

\* Faulty variant: the line after the username line is passed over, whatever it is
AfterTimeAlways(k) == k + 1

\* The cursor after the optional time line (line 66)
AfterTime(k) == IF HasTimeAt(k) THEN k + 1 ELSE k

\* A line without its line terminator, otherwise verbatim
TrimTerminator(raw) ==
    IF raw # <<>> /\ raw[Len(raw)] = LF THEN SubSeq(raw, 1, Len(raw) - 1) ELSE raw

\* Faulty variant: a continuation line trimmed of its line terminator only
ContinuationVerbatim(raw) == TrimTerminator(raw)

\* Line 76: the text of a continuation line
ContinuationText(raw) == Strip(raw)

\* Faulty variant: a line that ends with the separator stops the accumulation,
\* whatever follows it
StopsAtSeparator(k) ==
    \/ StartsWith(ContinuationText(Line(k + 1)), MentionLabel)
    \/ EndsWith(ContinuationText(Line(k + 1)), Separator)

\* Line 79: accumulation stops before the line after the cursor k
StopsAccumulation(k) ==
    \/ StartsWith(ContinuationText(Line(k + 1)), MentionLabel)
    \/ /\ EndsWith(ContinuationText(Line(k + 1)), Separator)
       /\ k + 2 < Len(lines)
       /\ StartsWith(Strip(Line(k + 2)), TimeLabel)

\* Line 86: the number of consecutive blank lines that ends the body
BlankLimit == 2

\* Faulty variant: one more blank line is needed to end the body
EndsAtBlankLate(n) == n > BlankLimit

\* Line 86: consecutive_empty >= 2
EndsAtBlank(n) == n >= BlankLimit

\* Lines 98-99: the trailing empty lines popped
RECURSIVE PopTrailingEmpty(_)
PopTrailingEmpty(ls) ==
    IF ls # <<>> /\ ls[Len(ls)] = <<>>
    THEN PopTrailingEmpty(SubSeq(ls, 1, Len(ls) - 1))
    ELSE ls

\* Faulty variant: a content field that is present, even if empty, gives a message
ShouldEmitNotNone(c) == c # None

\* Line 107: if content
ShouldEmit(c) == Truthy(c)

\* Faulty variant: the outer loop does not advance the cursor
NextCursorStuck(k) == k

\* Line 114: the cursor at the end of an iteration of the outer loop
NextCursor(k) == k + 1

\* Lines 49-53: the lines of the file are read, one of the given files, and
\* the cursor is set to 0
ReadFrom(files) ==
    /\ pc = "read"
    /\ lines' \in files
    /\ i' = 0
    /\ messages' = <<>>
    /\ pc' = "outer"
    /\ UNCHANGED <<username, timestamp, content_lines, consecutive_empty, content,
                   segVars, docVars, exit_code>>

\* Lines 49-50 raise (the file is missing or cannot be decoded): the exception
\* reaches main's handlers (lines 265-270)
ReadFails ==
    /\ pc = "read"
    /\ exit_code' = Some(1)
    /\ pc' = "failed"
    /\ UNCHANGED <<parseVars, messages, segVars, docVars>>

\* Lines 54-55, 58, 114: a line that is no username line is passed over
OuterSkip ==
    /\ pc = "outer"
    /\ i < Len(lines)
    /\ ~IsUsernameLine(Strip(Line(i)))
    /\ i' = NextCursor(i)
    /\ UNCHANGED <<lines, username, timestamp, content_lines, consecutive_empty,
                   content, messages, segVars, docVars, exit_code, pc>>

\* Lines 58-74: a username line, its optional time line, and a content line
HeaderWithContent ==
    /\ pc = "outer"
    /\ i < Len(lines)
    /\ IsUsernameLine(Strip(Line(i)))
    /\ username' = SubSeq(Strip(Line(i)), 1, Len(Strip(Line(i))) - 1)
    /\ timestamp' = IF HasTimeAt(i) THEN Some(FieldText(Line(i + 1), TimeLabel)) ELSE None
    /\ content' = None
    /\ \E k \in {AfterTime(i)} :
          /\ HasContentAt(k)
          /\ content_lines' = <<FieldText(Line(k + 1), ContentLabel)>>
          /\ i' = k + 1
    /\ consecutive_empty' = 0
    /\ pc' = "accum"
    /\ UNCHANGED <<lines, messages, segVars, docVars, exit_code>>

\* Lines 58-69: a username line, its optional time line, and no content line
HeaderWithoutContent ==
    /\ pc = "outer"
    /\ i < Len(lines)
    /\ IsUsernameLine(Strip(Line(i)))
    /\ username' = SubSeq(Strip(Line(i)), 1, Len(Strip(Line(i))) - 1)
    /\ timestamp' = IF HasTimeAt(i) THEN Some(FieldText(Line(i + 1), TimeLabel)) ELSE None
    /\ content' = None
    /\ \E k \in {AfterTime(i)} :
          /\ ~HasContentAt(k)
          /\ i' = k
    /\ pc' = "mention"
    /\ UNCHANGED <<lines, content_lines, consecutive_empty, messages, segVars, docVars, exit_code>>

\* Lines 98-101: the end of the accumulation, whichever way the loop was left
FinishContent ==
    /\ content_lines' = PopTrailingEmpty(content_lines)
    /\ content' = Some(Join(PopTrailingEmpty(content_lines)))
    /\ pc' = "mention"

\* Line 75: the loop condition fails, the file has no further line
AccumExhausted ==
    /\ pc = "accum"
    /\ ~(i + 1 < Len(lines))
    /\ FinishContent
    /\ UNCHANGED <<lines, i, username, timestamp, consecutive_empty, messages,
                   segVars, docVars, exit_code>>

\* Lines 79-80: break before a mention line or a new message header
AccumStop ==
    /\ pc = "accum"
    /\ i + 1 < Len(lines)
    /\ StopsAccumulation(i)
    /\ FinishContent
    /\ UNCHANGED <<lines, i, username, timestamp, consecutive_empty, messages,
                   segVars, docVars, exit_code>>

\* Lines 83-87: the blank line that ends the body
AccumLastBlank ==
    /\ pc = "accum"
    /\ i + 1 < Len(lines)
    /\ ~StopsAccumulation(i)
    /\ ContinuationText(Line(i + 1)) = <<>>
    /\ EndsAtBlank(consecutive_empty + 1)
    /\ consecutive_empty' = consecutive_empty + 1
    /\ FinishContent
    /\ UNCHANGED <<lines, i, username, timestamp, messages, segVars, docVars, exit_code>>

\* Lines 83-90: a blank line that is kept
AccumBlank ==
    /\ pc = "accum"
    /\ i + 1 < Len(lines)
    /\ ~StopsAccumulation(i)
    /\ ContinuationText(Line(i + 1)) = <<>>
    /\ ~EndsAtBlank(consecutive_empty + 1)
    /\ consecutive_empty' = consecutive_empty + 1
    /\ content_lines' = Append(content_lines, <<>>)
    /\ i' = i + 1
    /\ UNCHANGED <<lines, username, timestamp, content, messages, segVars, docVars, exit_code, pc>>

\* Lines 91-95: a non-blank continuation line
AccumLine ==
    /\ pc = "accum"
    /\ i + 1 < Len(lines)
    /\ ~StopsAccumulation(i)
    /\ ContinuationText(Line(i + 1)) # <<>>
    /\ consecutive_empty' = 0
    /\ content_lines' = Append(content_lines, ContinuationText(Line(i + 1)))
    /\ i' = i + 1
    /\ UNCHANGED <<lines, username, timestamp, content, messages, segVars, docVars, exit_code, pc>>

\* Faulty variant: no line is recognised as a mention line after the content
AtMentionNever == FALSE

\* Line 104: the line after the cursor is a mention line
AtMention ==
    /\ i + 1 < Len(lines)
    /\ Strip(Line(i + 1)) # <<>>
    /\ StartsWith(Strip(Line(i + 1)), MentionLabel)

\* Lines 104-105: a mention line is passed over
MentionSkip ==
    /\ pc = "mention"
    /\ AtMention
    /\ i' = i + 1
    /\ UNCHANGED <<lines, username, timestamp, content_lines, consecutive_empty,
                   content, messages, segVars, docVars, exit_code, pc>>

\* Lines 107-114: the message is appended
EmitMessage ==
    /\ pc = "mention"
    /\ ~AtMention
    /\ ShouldEmit(content)
    /\ messages' = Append(messages, Msg(username, timestamp, content[1]))
    /\ i' = NextCursor(i)
    /\ pc' = "outer"
    /\ UNCHANGED <<lines, username, timestamp, content_lines, consecutive_empty,
                   content, segVars, docVars, exit_code>>

\* Lines 107, 114: the candidate has no content and gives no message
DropCandidate ==
    /\ pc = "mention"
    /\ ~AtMention
    /\ ~ShouldEmit(content)
    /\ i' = NextCursor(i)
    /\ pc' = "outer"
    /\ UNCHANGED <<lines, username, timestamp, content_lines, consecutive_empty,
                   content, messages, segVars, docVars, exit_code>>

\* Lines 54, 116: the file is exhausted
ParseReturn ==
    /\ pc = "outer"
    /\ ~(i < Len(lines))
    /\ pc' = "parsed"
    /\ UNCHANGED <<parseVars, messages, segVars, docVars, exit_code>>

-----------------------------------------------------------------------------
(* The message sequences given to the segmenter *)

MaxMsgs == 4

StartTag    == <<EmDash, EmDash, "C", "S", "T", "5", "0", "1", "6", "/", "8", "/", "1", EmDash, EmDash>>
\* a start tag with both optional groups, inside other text
BodyStartIn == <<"x", EmDash, EmDash, "C", "S", "T", "5", "0", "1", "7", "/", "1", "/", "1",
                 "/", "9", ChShi, FwComma, "A", EmDash, EmDash, "y">>
\* the save literal followed by other text
BodySaveMore == EndMarker \o <<"x">>
\* a tag of another year: no start marker
BodyNoStart == <<EmDash, EmDash, "C", "S", "T", "5", "0", "1", "8", "/", "8", "/", "1", EmDash, EmDash>>
BodyText    == <<"x">>

MsgSet ==
    { Msg(RawGa1axian, Some(<<"t">>), StartTag),
      Msg(<<"b", "o", "b">>, None, BodyStartIn),
      Msg(RawShiyu, Some(<<"t">>), EndMarker),
      Msg(NameAdele, Some(<<"t">>), BodySaveMore),
      Msg(QQ1, Some(<<"t">>), BodyText),
      Msg(<<"b", "o", "b">>, None, BodyNoStart) }

MsgSeqs == UNION {[1..n -> MsgSet] : n \in 0..MaxMsgs}

ParserIdle ==
    /\ lines = <<>>
    /\ i = 0
    /\ username = <<>>
    /\ timestamp = None
    /\ content_lines = <<>>
    /\ consecutive_empty = 0
    /\ content = None

SegInit ==
    /\ idx = 0
    /\ sessions = <<>>
    /\ in_session = FALSE
    /\ current_session = <<>>

DocInit ==
    /\ doc = <<>>
    /\ rendered = 0
    /\ saved = FALSE

\* The process is running
MainInit == exit_code = None

\* main from line 256 on: the messages are given, segmentation starts
Init ==
    /\ messages \in MsgSeqs
    /\ ParserIdle
    /\ SegInit
    /\ DocInit
    /\ MainInit
    /\ pc = "seg_loop"

Next ==
    \/ SegStartMarker
    \/ SegInsideMessage
    \/ SegOutsideMessage
    \/ SegReturn
    \/ DocCreate
    \/ RenderSession
    \/ DocSave
    \/ WarnNoSessions

Spec == Init /\ [][Next]_vars

-----------------------------------------------------------------------------
(* Properties of the segmenter, stated on the input sequence *)

IsStart(k) == StartPatternSearch(messages[k].content)
IsEnd(k)   == IsEndMarker(messages[k].content)

\* The position of the last start marker among the first n messages (0: none)
LastStart(n) ==
    LET ks == {k \in 1..n : IsStart(k)}
    IN  IF ks = {} THEN 0 ELSE CHOOSE k \in ks : \A j \in ks : j <= k

\* After the first n messages a session is open: a start marker, and no save
\* message after the last one
OpenAfter(n) ==
    /\ LastStart(n) > 0
    /\ \A k \in (LastStart(n) + 1)..n : ~IsEnd(k)

LastOf(s) == s[Len(s)]

\* The for loop is about to process message idx + 1
AtMessage == pc = "seg_loop" /\ idx < Len(messages)

\* C1: every emitted session is non-empty and begins with a message whose body
\* matches the start pattern, at every point of the segmentation and in the
\* returned list, whichever path closed the session.
C1_SessionsStartWithMarker ==
    \A k \in 1..Len(sessions) :
        /\ sessions[k] # <<>>
        /\ StartPatternSearch(sessions[k][1].content)

\* C1 witness: the returned list holds a session closed by a save message, one
\* closed by the next start marker and one closed by the end of the input.
C1_Witness ==
    /\ pc = "segmented"
    /\ Len(messages) = 4
    /\ IsStart(1) /\ IsEnd(2) /\ IsStart(3) /\ IsStart(4)
    /\ Len(sessions) = 3

\* C2: a start marker met inside a session emits the session in progress as
\* exactly the messages from its own start marker up to, and excluding, the new
\* marker, and opens a new session holding only the new marker; a start marker
\* following a start marker with no save message between them gives two sessions.
C2_StartInsideForceCloses ==
    /\ [][ (AtMessage /\ IsStart(idx + 1) /\ in_session)
           => /\ LastStart(idx) > 0
              /\ sessions' = Append(sessions, SubSeq(messages, LastStart(idx), idx))
              /\ current_session' = <<messages[idx + 1]>>
              /\ in_session' ]_vars
    /\ [](pc = "segmented"
          => \A j, k \in 1..Len(messages) :
                (/\ j < k
                 /\ IsStart(j) /\ IsStart(k)
                 /\ \A x \in (j + 1)..(k - 1) : ~IsStart(x) /\ ~IsEnd(x))
                => \E n \in 1..(Len(sessions) - 1) :
                      /\ sessions[n] = SubSeq(messages, j, k - 1)
                      /\ Head(sessions[n + 1]) = messages[k])

\* C2 witness: a start marker, a plain message and a second start marker have
\* been processed; the first session is emitted and the second is open.
C2_Witness ==
    /\ pc = "seg_loop"
    /\ idx = 3
    /\ IsStart(1) /\ ~IsStart(2) /\ ~IsEnd(2) /\ IsStart(3)
    /\ sessions = <<SubSeq(messages, 1, 2)>>
    /\ current_session = <<messages[3]>>

\* C3: when the input ends inside a session, the unterminated session is the
\* last session returned and holds every message from its start marker to the
\* end of the input.
C3_UnterminatedEmitted ==
    (pc = "segmented" /\ OpenAfter(Len(messages)))
    => /\ sessions # <<>>
       /\ LastOf(sessions) = SubSeq(messages, LastStart(Len(messages)), Len(messages))

\* C3 witness: the input ended two messages after a start marker, and the
\* session was returned.
C3_Witness ==
    /\ pc = "segmented"
    /\ Len(messages) = 4
    /\ OpenAfter(4)
    /\ LastStart(4) = 2
    /\ Len(LastOf(sessions)) = 3

\* C4: inside a session, a message that is no start marker closes the session
\* exactly when its body equals the save literal: the session is then emitted
\* with that message last and the state is OUTSIDE; otherwise, also when the
\* body contains the literal among other text, nothing is emitted and the state
\* stays INSIDE.
C4_ExactEndMarkerCloses ==
    [][ (AtMessage /\ ~IsStart(idx + 1) /\ in_session)
        => IF messages[idx + 1].content = EndMarker
           THEN /\ sessions' = Append(sessions, SubSeq(messages, LastStart(idx), idx + 1))
                /\ ~in_session'
           ELSE /\ sessions' = sessions
                /\ in_session'
                /\ current_session' = SubSeq(messages, LastStart(idx), idx + 1) ]_vars

\* C4 witness: a message whose body contains the save literal and more text was
\* processed inside a session, which is still open.
C4_Witness ==
    /\ pc = "seg_loop"
    /\ idx >= 2
    /\ in_session
    /\ Contains(messages[idx].content, EndMarker)
    /\ messages[idx].content # EndMarker
    /\ LastOf(current_session) = messages[idx]

\* C5: segmenting the message list of any returned session gives back exactly
\* that one session.
C5_ResegmentationIdempotent ==
    pc = "segmented" => \A k \in 1..Len(sessions) : ExtractRpgSessions(sessions[k]) = <<sessions[k]>>

\* C5 witness: two sessions were returned, one closed by a save message after
\* a plain message, one left open.
C5_Witness ==
    /\ pc = "segmented"
    /\ Len(sessions) = 2
    /\ Len(sessions[1]) = 3
    /\ IsEndMarker(LastOf(sessions[1]).content)
    /\ ~IsEndMarker(LastOf(sessions[2]).content)

-----------------------------------------------------------------------------
(* Properties of the rendered document *)

IsParagraph(e) == e.kind = "paragraph"

HasTimeRun(e) == \E k \in 1..Len(e.runs) : e.runs[k].kind = "time"

\* The body a paragraph renders: the text of its content run
BodyOf(e) == LastOf(e.runs).text

\* The paragraphs of the document, in order
Paragraphs == SelectSeq(doc, IsParagraph)

\* C10: a rendered paragraph has a timestamp run only if its body matches the
\* start pattern or equals the save literal; and the input of a start-marker
\* message followed by a save message, each with a timestamp, is rendered as one
\* session of two paragraphs that both carry their timestamp.
C10_TimestampOnlyOnMarkers ==
    /\ \A k \in 1..Len(doc) :
          (IsParagraph(doc[k]) /\ HasTimeRun(doc[k]))
          => (StartPatternSearch(BodyOf(doc[k])) \/ BodyOf(doc[k]) = EndMarker)
    /\ (/\ pc = "done"
        /\ Len(messages) = 2
        /\ IsStart(1) /\ IsEnd(2)
        /\ Truthy(messages[1].timestamp) /\ Truthy(messages[2].timestamp))
       => /\ sessions = <<messages>>
          /\ Len(Paragraphs) = 2
          /\ \A k \in 1..2 :
                /\ Len(Paragraphs[k].runs) = 4
                /\ Paragraphs[k].runs[2].kind = "time"
                /\ Paragraphs[k].runs[2].text
                     = <<Space, "[">> \o messages[k].timestamp[1] \o <<"]">>

\* C10 witness: the saved document renders a session of a start marker, a plain
\* message that had a timestamp, and a save message; the markers carry a
\* timestamp run and the plain message does not.
C10_Witness ==
    /\ pc = "done"
    /\ Len(messages) = 3
    /\ IsStart(1) /\ IsEnd(3)
    /\ ~IsStart(2) /\ Truthy(messages[2].timestamp)
    /\ Len(Paragraphs) = 3
    /\ HasTimeRun(Paragraphs[1])
    /\ ~HasTimeRun(Paragraphs[2])
    /\ HasTimeRun(Paragraphs[3])

-----------------------------------------------------------------------------
(* The files given to the parser *)

MaxTail == 4

\* The lines as readlines returns them, each with its terminator
LUser         == <<"u", ":", LF>>
LTime         == TimeLabel \o <<Space, "t", LF>>
LContent      == ContentLabel \o <<Space, "a", LF>>
LContentEmpty == ContentLabel \o <<LF>>
LBlank        == <<LF>>
LText         == <<Space, "b", Space, LF>>
LMention      == MentionLabel \o <<"m", LF>>
\* a mention line with nothing after its label: it ends with the separator
LMentionBare  == MentionLabel \o <<LF>>
\* the username line of another author
LOther        == <<"v", ":", LF>>

\* How a file begins: nothing, or a username block with its content line
Headers ==
    { <<>>,
      <<LUser, LContent>>,
      <<LUser, LTime, LContent>>,
      <<LUser, LContentEmpty>>,
      <<LOther, LContent, LMentionBare>> }

\* The lines that follow, in any order
TailLines == {LUser, LTime, LContent, LBlank, LText, LMention}

Tails == UNION {[1..n -> TailLines] : n \in 0..MaxTail}

Files == {h \o t : h \in Headers, t \in Tails}

\* parse_chat_log from line 52 on: the lines are read, the cursor is at 0
InitParse ==
    /\ lines \in Files
    /\ i = 0
    /\ username = <<>>
    /\ timestamp = None
    /\ content_lines = <<>>
    /\ consecutive_empty = 0
    /\ content = None
    /\ messages = <<>>
    /\ SegInit
    /\ DocInit
    /\ MainInit
    /\ pc = "outer"

NextParse ==
    \/ OuterSkip
    \/ HeaderWithContent
    \/ HeaderWithoutContent
    \/ AccumExhausted
    \/ AccumStop
    \/ AccumLastBlank
    \/ AccumBlank
    \/ AccumLine
    \/ MentionSkip
    \/ EmitMessage
    \/ DropCandidate
    \/ ParseReturn

SpecParse == InitParse /\ [][NextParse]_vars

\* parse_chat_log from its first line: the file is still to be read
InitRead ==
    /\ ParserIdle
    /\ messages = <<>>
    /\ SegInit
    /\ DocInit
    /\ MainInit
    /\ pc = "read"

\* The files whose parse is followed to its end: a beginning and a shorter tail
MaxLiveTail == 2

LiveFiles == {h \o t : h \in Headers,
                       t \in UNION {[1..n -> TailLines] : n \in 0..MaxLiveTail}}

ReadLines == ReadFrom(LiveFiles)

NextRead ==
    \/ ReadLines
    \/ NextParse

\* parse_chat_log runs in one thread with nothing to wait for: whenever it has
\* a next step, it takes it
SpecParseLive == InitRead /\ [][NextRead]_vars /\ WF_vars(NextRead)

-----------------------------------------------------------------------------
(* main: the whole run, from the file to the document *)

MaxBlocks == 3

\* Content lines that hold a start tag and the save literal
LStart == ContentLabel \o StartTag \o <<LF>>
LSave  == ContentLabel \o EndMarker \o <<LF>>

\* The pieces a file is made of: a start marker, a save message and a message
\* followed by a mention line, each with its time line, a message of two lines
\* followed by two blank lines, and a username line alone
FileBlocks ==
    { <<LUser, LTime, LStart>>,
      <<LUser, LTime, LSave>>,
      <<LUser, LTime, LContent, LMention>>,
      <<LOther, LContent, LText, LBlank, LBlank>>,
      <<LUser>> }

MainFiles == {Flatten(bs) : bs \in UNION {[1..n -> FileBlocks] : n \in 0..MaxBlocks}}

\* main, line 252: parse_chat_log reads the input file
ReadFile == ReadFrom(MainFiles)

\* main, line 256: extract_rpg_sessions is called on the parsed messages
BeginSegment ==
    /\ pc = "parsed"
    /\ pc' = "seg_loop"
    /\ UNCHANGED <<parseVars, messages, segVars, docVars, exit_code>>

NextMain ==
    \/ ReadFile
    \/ ReadFails
    \/ NextParse
    \/ BeginSegment
    \/ SegStartMarker
    \/ SegInsideMessage
    \/ SegOutsideMessage
    \/ SegReturn
    \/ DocCreate
    \/ RenderSession
    \/ RenderFails
    \/ DocSave
    \/ WarnNoSessions

\* main from line 250 on
SpecMain == InitRead /\ [][NextMain]_vars

-----------------------------------------------------------------------------
(* Properties of the parser, stated on the lines of the file (numbered from 1) *)

SLine(k) == Strip(lines[k])

UserAt(k)    == k \in 1..Len(lines) /\ IsUsernameLine(SLine(k))
TimeAt(k)    == k \in 1..Len(lines) /\ StartsWith(SLine(k), TimeLabel)
ContentAt(k) == k \in 1..Len(lines) /\ StartsWith(SLine(k), ContentLabel)
BlankAt(k)   == k \in 1..Len(lines) /\ SLine(k) = <<>>

NameAt(k) == SubSeq(SLine(k), 1, Len(SLine(k)) - 1)

\* Line k is a username line followed, directly or after one time line, by a
\* content line
BlockAt(k) == UserAt(k) /\ (ContentAt(k + 1) \/ (TimeAt(k + 1) /\ ContentAt(k + 2)))

\* The content line of the block at k, its text and its timestamp
BlockContent(k)   == IF TimeAt(k + 1) THEN k + 2 ELSE k + 1
BlockText(k)      == FieldText(lines[BlockContent(k)], ContentLabel)
BlockTimestamp(k) == IF TimeAt(k + 1) THEN Some(FieldText(lines[k + 1], TimeLabel)) ELSE None

\* Line k is accumulated as a continuation line when the cursor is before it
ContinuationAt(k) ==
    /\ k \in 1..Len(lines)
    /\ SLine(k) # <<>>
    /\ ~StartsWith(SLine(k), MentionLabel)
    /\ ~(EndsWith(SLine(k), Separator) /\ TimeAt(k + 1))

\* C6: every emitted message has a non-empty body and comes from a username
\* line followed, directly or after one time line, by a content line, whose
\* name, timestamp and first content text it carries; there are no more
\* messages than such lines, so a username line without a content field gives
\* no message.
C6_MessageNeedsContent ==
    /\ \A m \in 1..Len(messages) :
          /\ messages[m].content # <<>>
          /\ \E k \in 1..Len(lines) :
                /\ BlockAt(k)
                /\ messages[m].username = NameAt(k)
                /\ messages[m].timestamp = BlockTimestamp(k)
                /\ StartsWith(messages[m].content, BlockText(k))
    /\ Len(messages) <= Cardinality({k \in 1..Len(lines) : BlockAt(k)})

\* C6 witness: the file ends with a username line and a time line with no
\* content line; the block before them gave the only message.
C6_Witness ==
    /\ pc = "parsed"
    /\ Len(lines) = 5
    /\ BlockAt(1)
    /\ UserAt(4) /\ TimeAt(5)
    /\ Len(messages) = 1

\* C7: the body of every emitted message has no leading and no trailing blank
\* line: its first and its last line are non-empty.
C7_NoLeadingOrTrailingBlank ==
    \A m \in 1..Len(messages) :
        /\ messages[m].content # <<>>
        /\ Head(messages[m].content) # LF
        /\ LastOf(messages[m].content) # LF

\* The first block of a file that begins with one: the index of its content
\* line (0: the file does not begin with a block)
FirstContent == IF BlockAt(1) THEN BlockContent(1) ELSE 0

\* C8: when the content line of the first block is followed by two blank lines
\* and a new username block, the first body is the content text alone and the
\* new block gives the second message; when it is followed by one blank line
\* and a non-blank continuation line, the body keeps the blank line between
\* the two.
C8_TwoBlanksEndBody ==
    LET c == FirstContent
    IN  /\ (/\ pc = "parsed"
            /\ c > 0
            /\ BlockText(1) # <<>>
            /\ BlankAt(c + 1) /\ BlankAt(c + 2)
            /\ BlockAt(c + 3)
            /\ BlockText(c + 3) # <<>>)
           => /\ Len(messages) >= 2
              /\ messages[1].content = BlockText(1)
              /\ messages[2].username = NameAt(c + 3)
              /\ messages[2].timestamp = BlockTimestamp(c + 3)
              /\ StartsWith(messages[2].content, BlockText(c + 3))
        /\ (/\ pc = "parsed"
            /\ c > 0
            /\ BlankAt(c + 1)
            /\ ContinuationAt(c + 2))
           => /\ Len(messages) >= 1
              /\ StartsWith(messages[1].content,
                            BlockText(1) \o <<LF, LF>> \o SLine(c + 2))

\* C8 witness: a block with content, two blank lines and a second block were
\* parsed into two messages.
C8_Witness ==
    /\ pc = "parsed"
    /\ FirstContent = 2
    /\ BlockText(1) # <<>>
    /\ BlankAt(3) /\ BlankAt(4)
    /\ BlockAt(5)
    /\ Len(messages) = 2

\* C9 as stated: a continuation line is appended verbatim, trimmed of its line
\* terminator only.
C9_ContinuationVerbatim ==
    (pc = "accum" /\ Len(content_lines) >= 2)
    => LastOf(content_lines) = TrimTerminator(Line(i))

\* No line of the body begins or ends with a space or a tab
NoOuterBlanks(body) ==
    \A k \in 1..Len(body) :
        body[k] \in {Space, Tab}
        => /\ k > 1 /\ body[k - 1] # LF
           /\ k < Len(body) /\ body[k + 1] # LF

\* C9 amended: a continuation line is appended with all its leading and
\* trailing whitespace removed, spaces and tabs as well as the line terminator,
\* and no line of an emitted body begins or ends with a space or a tab.
C9_ContinuationStripped ==
    /\ (pc = "accum" /\ Len(content_lines) >= 2)
       => LastOf(content_lines) = Strip(Line(i))
    /\ \A m \in 1..Len(messages) : NoOuterBlanks(messages[m].content)

\* C9 witness: a continuation line with a space on either side was accumulated
\* and the message emitted.
C9_Witness ==
    /\ pc = "parsed"
    /\ FirstContent = 2
    /\ BlockText(1) # <<>>
    /\ Len(lines) >= 3
    /\ ContinuationAt(3)
    /\ Head(lines[3]) = Space
    /\ Len(messages) >= 1
    /\ StartsWith(messages[1].content, BlockText(1) \o <<LF>> \o SLine(3))

-----------------------------------------------------------------------------
(* Properties of the identity resolution *)

\* The messages whose paragraphs are in the document, in order
RenderedMessages == Flatten(SubSeq(sessions, 1, rendered))

\* C11: a paragraph of a message whose raw author is no key of NAME_MAPPING
\* shows the raw identifier unchanged and none of its runs has a colour, also
\* when the raw identifier is the text of a display name of the table.
C11_UnmappedUncoloured ==
    pc \in {"render", "done"}
    => \A k \in 1..Len(Paragraphs) :
          RenderedMessages[k].username \notin DOMAIN NAME_MAPPING
          => /\ Paragraphs[k].runs[1].text = RenderedMessages[k].username
             /\ \A r \in 1..Len(Paragraphs[k].runs) : Paragraphs[k].runs[r].color = None

-----------------------------------------------------------------------------
(* Properties of the segmentation as a whole *)

\* The number of start markers among the first n messages
StartCount(n) == Cardinality({k \in 1..n : IsStart(k)})

\* The position of the n-th start marker
NthStart(n) == CHOOSE k \in 1..Len(messages) : IsStart(k) /\ StartCount(k) = n

\* The last position of the run a start marker at position s opens: the first
\* save message after s, or the position before the next start marker, or the
\* end of the input, whichever comes first
RunEnd(s) ==
    LET stops == {k \in (s + 1)..Len(messages) : IsStart(k) \/ IsEnd(k)}
    IN  IF stops = {} THEN Len(messages)
        ELSE LET k == CHOOSE x \in stops : \A y \in stops : x <= y
             IN  IF IsEnd(k) THEN k ELSE k - 1

\* Message k is processed outside every session: it is no start marker, and
\* no session is open after the messages before it
Outside(k) == ~IsStart(k) /\ ~OpenAfter(k - 1)

\* C18: the number of sessions returned equals the number of messages whose
\* body matches the start pattern; during the loop every start marker read so
\* far has opened one session that is either emitted or the one in progress.
C18_OneSessionPerStartMarker ==
    /\ pc = "seg_loop"
       => Len(sessions) + (IF in_session THEN 1 ELSE 0) = StartCount(idx)
    /\ pc # "seg_loop"
       => /\ Len(sessions) = StartCount(Len(messages))
          /\ Len(ExtractRpgSessions(messages)) = StartCount(Len(messages))

\* C18 witness: three start markers, one closed by a save message, one by the
\* next start marker and one by the end of the input, and a message outside.
C18_Witness ==
    /\ pc = "segmented"
    /\ Len(messages) = 4
    /\ IsStart(1) /\ IsEnd(2) /\ IsStart(3) /\ IsStart(4)
    /\ Len(sessions) = 3

\* C19: the sessions are the runs of the input that the start markers open, in
\* input order: session n is the contiguous run from the n-th start marker to
\* its end, the runs are pairwise disjoint, and a message processed outside
\* every session (no start marker, and before the first start marker or after
\* a save message with no start marker since) lies in none of the runs.
C19_SessionsAreDisjointRuns ==
    pc # "seg_loop"
    => /\ Len(sessions) = StartCount(Len(messages))
       /\ \A n \in 1..Len(sessions) :
             sessions[n] = SubSeq(messages, NthStart(n), RunEnd(NthStart(n)))
       /\ \A n \in 1..(Len(sessions) - 1) : RunEnd(NthStart(n)) < NthStart(n + 1)
       /\ \A k \in 1..Len(messages) :
             Outside(k)
             => \A n \in 1..Len(sessions) : k < NthStart(n) \/ k > RunEnd(NthStart(n))

\* C19 witness: a message before the first start marker, a session of three
\* messages closed by a save message, and a message after it, outside.
C19_Witness ==
    /\ pc = "segmented"
    /\ Len(messages) = 4
    /\ ~IsStart(1) /\ IsStart(2) /\ ~IsStart(3) /\ IsEnd(3) /\ Outside(4)
    /\ sessions = <<SubSeq(messages, 2, 3)>>

\* Paragraph k of the document is the first or the last paragraph of the
\* session it belongs to: a heading precedes it, or a heading or nothing follows
AtSessionEdge(k) ==
    \/ doc[k - 1].kind = "heading"
    \/ k = Len(doc)
    \/ doc[k + 1].kind = "heading"

\* C20: in every emitted session a start marker occurs only at the first
\* position and a message equal to the save literal only at the last one; and
\* in the document only the first and the last paragraph of a session can carry
\* a timestamp run.
C20_MarkersAtSessionEdges ==
    /\ \A n \in 1..Len(sessions) : \A k \in 1..Len(sessions[n]) :
          /\ StartPatternSearch(sessions[n][k].content) => k = 1
          /\ IsEndMarker(sessions[n][k].content) => k = Len(sessions[n])
    /\ \A k \in 2..Len(doc) :
          (IsParagraph(doc[k]) /\ HasTimeRun(doc[k])) => AtSessionEdge(k)

\* C20 witness: the saved document holds a session of four paragraphs whose
\* two middle messages had a timestamp; only the first and the last paragraph
\* carry a timestamp run.
C20_Witness ==
    /\ pc = "done"
    /\ Len(messages) = 4
    /\ IsStart(1) /\ IsEnd(4)
    /\ Truthy(messages[2].timestamp) /\ Truthy(messages[3].timestamp)
    /\ Len(sessions) = 1 /\ Len(sessions[1]) = 4
    /\ HasTimeRun(Paragraphs[1]) /\ HasTimeRun(Paragraphs[4])
    /\ ~HasTimeRun(Paragraphs[2]) /\ ~HasTimeRun(Paragraphs[3])

-----------------------------------------------------------------------------
(* Properties of the parser's treatment of incomplete records and of the
   lines that end a body *)

\* The cursor is on line k (numbered from 1) and the outer loop examines it
ExaminesLine(k) == pc = "outer" /\ i + 1 = k /\ k <= Len(lines)

\* Line k is a candidate username line with no content field: neither the next
\* line nor, after a time line, the line after that is a content line
IncompleteAt(k) == UserAt(k) /\ ~BlockAt(k)

\* The first line after the incomplete record at line 1: after its username
\* line and its time line, if it has one
AfterIncomplete == IF TimeAt(2) THEN 3 ELSE 2

SeparatorAt(k) == k \in 1..Len(lines) /\ EndsWith(SLine(k), Separator)
MentionAt(k)   == k \in 1..Len(lines) /\ StartsWith(SLine(k), MentionLabel)

\* The accumulation loop is about to look at line k (numbered from 1)
AccumLooksAt(k) == pc = "accum" /\ i + 2 = k /\ k <= Len(lines)

\* The accumulation ends before line k, which is not consumed
EndsBodyBefore(k) == pc' = "mention" /\ i' = i /\ messages' = messages

\* Line k is appended to the body
AppendsLine(k) ==
    /\ pc' = "accum"
    /\ i' = i + 1
    /\ content_lines' = Append(content_lines, SLine(k))

\* C15 as stated: during accumulation a line that ends with the separator ends
\* the body if and only if the line after it begins with the time label, and is
\* appended to the body otherwise; when it ends the body it is not consumed and
\* is the next line examined as a candidate username line.
C15_SeparatorEndsBodyIffTime ==
    /\ [][ (AccumLooksAt(i + 2) /\ SeparatorAt(i + 2))
           => IF TimeAt(i + 3) THEN EndsBodyBefore(i + 2) ELSE AppendsLine(i + 2) ]_vars
    /\ [][ (pc = "mention" /\ SeparatorAt(i + 2) /\ TimeAt(i + 3))
           => (pc' = "outer" /\ i' = i + 1) ]_vars

\* C15 amended: the same for a separator-ending line that does not begin with
\* the mention label (a mention line ends the body whatever follows it, and is
\* consumed); the line that ended the body is then examined by the outer loop
\* as a username line; so a username line followed by a content line after the
\* first content line is part of the first body, and one followed by a time
\* line and a content line starts the second message.
C15_PlainSeparatorEndsBodyIffTime ==
    /\ [][ (AccumLooksAt(i + 2) /\ SeparatorAt(i + 2) /\ ~MentionAt(i + 2))
           => IF TimeAt(i + 3) THEN EndsBodyBefore(i + 2) ELSE AppendsLine(i + 2) ]_vars
    /\ [][ (pc = "mention" /\ SeparatorAt(i + 2) /\ ~MentionAt(i + 2) /\ TimeAt(i + 3))
           => (pc' = "outer" /\ i' = i + 1) ]_vars
    /\ [][ (ExaminesLine(i + 1) /\ UserAt(i + 1))
           => (username' = NameAt(i + 1) /\ pc' \in {"accum", "mention"}) ]_vars
    /\ LET c == FirstContent
       IN  []( /\ (/\ pc = "parsed" /\ c > 0
                   /\ SeparatorAt(c + 1) /\ ~MentionAt(c + 1) /\ ContentAt(c + 2))
                  => /\ Len(messages) >= 1
                     /\ StartsWith(messages[1].content,
                                   BlockText(1) \o <<LF>> \o SLine(c + 1)
                                                \o <<LF>> \o SLine(c + 2))
               /\ (/\ pc = "parsed" /\ c > 0 /\ BlockText(1) # <<>>
                   /\ SeparatorAt(c + 1) /\ ~MentionAt(c + 1) /\ TimeAt(c + 2)
                   /\ ContentAt(c + 3) /\ BlockText(c + 1) # <<>>)
                  => /\ Len(messages) >= 2
                     /\ messages[1].content = BlockText(1)
                     /\ messages[2].username = NameAt(c + 1)
                     /\ StartsWith(messages[2].content, BlockText(c + 1)) )

\* C15 witness: after the first content line a username line followed by a
\* content line was taken into the first body, and the only message emitted.
C15_Witness ==
    /\ pc = "parsed"
    /\ FirstContent = 2
    /\ Len(lines) = 4
    /\ UserAt(3) /\ ContentAt(4)
    /\ Len(messages) = 1
    /\ messages[1].content = BlockText(1) \o <<LF>> \o SLine(3) \o <<LF>> \o SLine(4)

\* The label of a mention line at the start of a continuation line of a body
MentionInBody == <<LF>> \o MentionLabel

\* C16: accumulation stops at the first line that begins with the mention
\* label, without taking it into the body; every mention line directly after a
\* message's content is then passed over, one line per step, with nothing
\* emitted or retained; no continuation line of an emitted body begins with the
\* mention label; and the outer loop never examines a mention line that
\* directly follows the content just accumulated, so a mention line that ends
\* with the separator is not taken as the username line of another message.
C16_MentionLinesConsumed ==
    /\ [][ (AccumLooksAt(i + 2) /\ MentionAt(i + 2))
           => /\ EndsBodyBefore(i + 2)
              /\ content' = Some(Join(PopTrailingEmpty(content_lines))) ]_vars
    /\ [][ (pc = "mention" /\ MentionAt(i + 2))
           => /\ pc' = "mention"
              /\ i' = i + 1
              /\ messages' = messages
              /\ content' = content ]_vars
    /\ [][ (pc = "mention" /\ pc' = "outer") => ~MentionAt(i' + 1) ]_vars
    /\ [](\A m \in 1..Len(messages) : ~Contains(messages[m].content, MentionInBody))
    /\ []( (/\ pc = "parsed"
            /\ FirstContent = 2
            /\ MentionAt(3) /\ SeparatorAt(3))
           => \A m \in 1..Len(messages) : messages[m].username # NameAt(3) )

\* C16 witness: the first content line is followed by a mention line that ends
\* with the separator, a second mention line and a content line; one message
\* was emitted, its body the first content text alone.
C16_Witness ==
    /\ pc = "parsed"
    /\ FirstContent = 2
    /\ Len(lines) = 5
    /\ MentionAt(3) /\ SeparatorAt(3)
    /\ MentionAt(4)
    /\ ContentAt(5)
    /\ messages = <<Msg(NameAt(1), None, BlockText(1))>>

-----------------------------------------------------------------------------
(* Termination and order of parse_chat_log *)

\* Message m carries the name, the timestamp and the first content text of the
\* block at line p
FromBlock(m, p) ==
    /\ BlockAt(p)
    /\ messages[m].username = NameAt(p)
    /\ messages[m].timestamp = BlockTimestamp(p)
    /\ StartsWith(messages[m].content, BlockText(p))

\* The messages from the m-th on come from blocks at increasing lines, from
\* line k on
RECURSIVE InSourceOrder(_, _)
InSourceOrder(m, k) ==
    IF m > Len(messages) THEN TRUE
    ELSE \E p \in k..Len(lines) : FromBlock(m, p) /\ InSourceOrder(m + 1, p + 1)

\* A step that ends an iteration of the outer loop, or is an iteration of the
\* accumulation loop or of the mention loop that goes on
EndsIteration ==
    /\ pc \in {"outer", "accum", "mention"}
    /\ pc' = "outer" \/ (pc' = pc /\ pc # "outer")

\* C17: parse_chat_log terminates on every file; the cursor never goes back
\* and is one line further after every iteration of the outer loop and after
\* every iteration of the accumulation loop and of the mention loop that does
\* not leave the loop; the cursor and the lines looked ahead at stay within the
\* file; and the messages are emitted one at a time at the end of the list, each
\* for the username line the outer loop examined last, so that they come from
\* blocks at increasing lines of the file.
C17_ParseTerminatesInOrder ==
    /\ <>(pc = "parsed")
    /\ [][EndsIteration => i' = i + 1]_vars
    /\ [][i' >= i]_vars
    /\ [](/\ i <= Len(lines)
          /\ pc \in {"accum", "mention"} => i < Len(lines)
          /\ pc = "parsed" => i = Len(lines))
    /\ [][messages' # messages
          => /\ pc = "mention" /\ content # None
             /\ messages' = Append(messages, Msg(username, timestamp, content[1])) ]_vars
    /\ [][username' # username
          => (ExaminesLine(i + 1) /\ username' = NameAt(i + 1))]_vars
    /\ [](InSourceOrder(1, 1))

\* C17 witness: the parse is over; the block of the other author at the top
\* of the file, with its mention line, and the block after it gave two
\* messages, in that order.
C17_Witness ==
    /\ pc = "parsed"
    /\ i = Len(lines)
    /\ Len(lines) = 5
    /\ MentionAt(3) /\ BlockAt(4)
    /\ Len(messages) = 2
    /\ messages[1].username = NameAt(1)
    /\ messages[2].username = NameAt(4)
    /\ NameAt(1) # NameAt(4)

-----------------------------------------------------------------------------
(* Properties of main *)

\* C12: when the segmentation returns no session, main reports the warning
\* and ends with exit status zero, with no document created, rendered or
\* saved; the rendering and the save are reached only with a session to render.
C12_NoSessionsIsWarning ==
    /\ [][ (pc = "segmented" /\ sessions = <<>>)
           => /\ pc' = "warned"
              /\ exit_code' = Some(0)
              /\ UNCHANGED docVars ]_vars
    /\ [](pc = "warned"
          => /\ sessions = <<>>
             /\ doc = <<>> /\ rendered = 0 /\ ~saved
             /\ exit_code = Some(0))
    /\ [](pc \in {"render", "done"} => sessions # <<>>)
    /\ [](saved => sessions # <<>>)

\* C12 witness: a file of two messages with no start marker was parsed and
\* segmented into no session, and main ended with the warning.
C12_Witness ==
    /\ pc = "warned"
    /\ Len(messages) = 2
    /\ sessions = <<>>
    /\ ~saved
    /\ exit_code = Some(0)

\* C13: the document is saved only by the step taken after the last session
\* was rendered, and then holds one paragraph for every message of every
\* session, in order; a failure while reading or rendering ends main with a
\* non-zero exit status, nothing saved, and no step after it; exit status zero
\* is given only after the save or the warning.
C13_AllOrNothing ==
    /\ [][ (~saved /\ saved') => (pc = "render" /\ rendered = Len(sessions)) ]_vars
    /\ [](saved
          => /\ pc = "done"
             /\ rendered = Len(sessions)
             /\ Len(Paragraphs) = Len(Flatten(sessions))
             /\ \A k \in 1..Len(Paragraphs) : BodyOf(Paragraphs[k]) = Flatten(sessions)[k].content
             /\ exit_code = Some(0))
    /\ [](pc = "failed" => (~saved /\ exit_code = Some(1)))
    /\ [][ pc = "failed" => UNCHANGED vars ]_vars
    /\ [](exit_code = Some(0) => pc \in {"done", "warned"})
    /\ [](pc = "done" => saved)

\* C13 witness: the rendering failed in the second session, after the first
\* one and a part of the second were added to the document; nothing was saved
\* and the exit status is 1.
C13_Witness ==
    /\ pc = "failed"
    /\ Len(sessions) = 2
    /\ rendered = 1
    /\ Len(doc) > 1 + 1 + Len(sessions[1])
    /\ ~saved
    /\ exit_code = Some(1)

=============================================================================
